---------------------------- MODULE Spec2Model ----------------------------
(***************************************************************************)
(* Basketball Shot Form Analyzer (src/app.js): the per-frame metrics       *)
(* pipeline, its rolling history, the start/stop gate and the reset.       *)
(*                                                                         *)
(* Numbers.  Landmark coordinates are normalized coordinates in            *)
(* thousandths (x = 500 is 0.5).  Angles are degrees.  JavaScript doubles  *)
(* are modelled as exact rationals <<num, den>> in lowest terms, den > 0;  *)
(* Math.atan2 is tabulated in whole degrees on the direction vectors the   *)
(* landmark sets below produce.                                            *)
(***************************************************************************)
EXTENDS Integers, Sequences, FiniteSets, TLC

VARIABLES
    isRunning,      \* app.js:20   the start/stop gate
    camera,         \* app.js:19   "none" | "starting" | "on" | "stopped"
    startBtn,       \* app.js:11   "enabled" | "disabled"
    stopBtn,        \* app.js:12   "enabled" | "disabled"
    inFlight,       \* pose.send calls whose result is not yet delivered
    frameCount,     \* app.js:23
    analysisData,   \* app.js:24   the four history queues
    computed,       \* the consts of the latest analyzeShootingForm run
                    \* since the last reset (NoAnalysis when there is none)
    display,        \* textContent of the five metric elements
    bars,           \* the four progress bars: width and class
    ring,           \* the score ring: score shown and stroke
    feedback,       \* textContent of #form-feedback
    status,         \* textContent of the four *-status elements
    statusText,     \* textContent of #status-text
    lastFrame,      \* what the latest onPoseResults call was given
    thrown,         \* whether the latest onPoseResults call threw
    rawLog,         \* raw metrics of the valid frames since the last reset
    discarded,      \* the last reset emptied a non-empty history, and at
                    \* most one valid frame has followed it
    probe           \* one call of a pure function: its name, its argument
                    \* and, once made, its result

vars == <<isRunning, camera, startBtn, stopBtn, inFlight, frameCount,
          analysisData, computed, display, bars, ring, feedback, status,
          statusText, lastFrame, thrown, rawLog, discarded, probe>>

gateVars == <<isRunning, camera, startBtn, stopBtn, statusText>>
pageVars == <<isRunning, camera, startBtn, stopBtn, inFlight, frameCount,
              analysisData, computed, display, bars, ring, feedback, status,
              statusText, lastFrame, thrown, rawLog, discarded>>
historyVars == <<frameCount, analysisData, rawLog, discarded>>
uiVars == <<computed, display, bars, ring, status>>

----------------------------------------------------------------------------
(* Bounds of the model *)

\* probed angles are the multiples of 1 / StepsPerDegree of a degree
StepsPerDegree == 2
\* valid frames accepted between two resets
MaxFrames == 31
\* the subject settles into the reference form: only the first MaxWarmup
\* valid frames after a reset may show another pose
MaxWarmup == 2
\* pose.send calls awaiting their result
MaxInFlight == 1

(* Program constants *)

\* app.js:252  rolling window of the history queues
WindowSize == 30

----------------------------------------------------------------------------
(* Rational arithmetic standing for JavaScript's doubles *)

Abs(n) == IF n < 0 THEN 0 - n ELSE n

RECURSIVE Gcd(_, _)
Gcd(a, b) == IF b = 0 THEN a ELSE Gcd(b, a % b)

Rat(n, d) ==
    LET s == IF d < 0 THEN 0 - 1 ELSE 1
        g == Gcd(Abs(n), Abs(d))
    IN  <<(s * n) \div g, (s * d) \div g>>

RInt(n) == <<n, 1>>
RAdd(a, b) == Rat(a[1] * b[2] + b[1] * a[2], a[2] * b[2])
RSub(a, b) == Rat(a[1] * b[2] - b[1] * a[2], a[2] * b[2])
RMul(a, b) == Rat(a[1] * b[1], a[2] * b[2])
RDiv(a, b) == Rat(a[1] * b[2], a[2] * b[1])
RLe(a, b) == a[1] * b[2] <= b[1] * a[2]
RLt(a, b) == a[1] * b[2] < b[1] * a[2]
RAbs(a) == <<Abs(a[1]), a[2]>>
RMax(a, b) == IF RLe(a, b) THEN b ELSE a

\* Math.round: the nearest integer, a tie going up
MathRound(a) == (2 * a[1] + a[2]) \div (2 * a[2])

RECURSIVE SumTo(_, _)
SumTo(s, i) == IF i = 0 THEN 0 ELSE s[i] + SumTo(s, i - 1)

\* arr.reduce((a, b) => a + b, 0)
SumSeq(s) == SumTo(s, Len(s))

----------------------------------------------------------------------------
(* Geometry *)

\* Math.atan2(dy, dx) * 180 / Math.PI in the first quadrant (dy, dx >= 0)
AtanTable(dy, dx) ==
    CASE dy = 0 -> 0
      [] dx = 0 -> 90
      [] dy = dx -> 45
      [] 2 * dy = dx -> 27
      [] dy = 2 * dx -> 63
      [] dy = 143 /\ dx = 120 -> 50
      [] dy = 69 /\ dx = 148 -> 25
      [] dy = 148 /\ dx = 69 -> 65

\* Math.atan2(dy, dx) * 180 / Math.PI, in (-180, 180]
Atan2Deg(dy, dx) ==
    LET a == AtanTable(Abs(dy), Abs(dx))
    IN  IF dx >= 0
        THEN (IF dy >= 0 THEN a ELSE 0 - a)
        ELSE (IF dy >= 0 THEN 180 - a ELSE a - 180)

\* calculateAngle without the fold of angles above 180
calculateAngle_NoFold(point1, point2, point3) ==
    Abs(Atan2Deg(point3.y - point2.y, point3.x - point2.x)
        - Atan2Deg(point1.y - point2.y, point1.x - point2.x))

calculateAngle(point1, point2, point3) ==
    LET degrees == Atan2Deg(point3.y - point2.y, point3.x - point2.x)
                   - Atan2Deg(point1.y - point2.y, point1.x - point2.x)
        angle == Abs(degrees)
    IN  IF angle > 180 THEN 360 - angle ELSE angle

calculateReleaseAngle(shoulder, wrist) ==
    LET deltaY == shoulder.y - wrist.y
        deltaX == Abs(shoulder.x - wrist.x)
        angle == Atan2Deg(deltaY, deltaX)
    IN  IF angle > 0 THEN angle ELSE 0

calculateAlignment(leftShoulder, rightShoulder) ==
    LET shoulderDiff == Abs(leftShoulder.y - rightShoulder.y)
        alignmentScore == 100 - shoulderDiff
    IN  IF alignmentScore > 0 THEN alignmentScore ELSE 0

----------------------------------------------------------------------------
(* Scoring *)

\* scoreElbowAngle without the floor at 0
scoreElbowAngle_NoFloor(angle) ==
    LET diff == RAbs(RSub(angle, RInt(90)))
    IN  IF RLe(diff, RInt(10))
        THEN RSub(RInt(100), RMul(diff, RInt(5)))
        ELSE RSub(RInt(50), RMul(RSub(diff, RInt(10)), RInt(2)))

\* scoreElbowAngle losing 10 points per degree inside the tolerance
scoreElbowAngle_Steep(angle) ==
    LET diff == RAbs(RSub(angle, RInt(90)))
    IN  IF RLe(diff, RInt(10))
        THEN RSub(RInt(100), RMul(diff, RInt(10)))
        ELSE RMax(RInt(0), RSub(RInt(50), RMul(RSub(diff, RInt(10)), RInt(2))))

scoreElbowAngle(angle) ==
    LET optimal == RInt(90)
        tolerance == RInt(10)
        diff == RAbs(RSub(angle, optimal))
    IN  IF RLe(diff, tolerance)
        THEN RSub(RInt(100), RMul(diff, RInt(5)))
        ELSE RMax(RInt(0), RSub(RInt(50), RMul(RSub(diff, tolerance), RInt(2))))

scoreReleaseHeight(angle) ==
    IF RLe(RInt(45), angle) /\ RLe(angle, RInt(60))
    THEN RInt(100)
    ELSE IF RLt(angle, RInt(45))
         THEN RMax(RInt(0), RMul(RDiv(angle, RInt(45)), RInt(100)))
         ELSE RMax(RInt(0), RSub(RInt(100), RMul(RSub(angle, RInt(60)), RInt(3))))

scoreKneeAngle(angle) ==
    IF RLe(RInt(100), angle) /\ RLe(angle, RInt(130))
    THEN RInt(100)
    ELSE IF RLt(angle, RInt(100))
         THEN RMax(RInt(0), RMul(RDiv(angle, RInt(100)), RInt(100)))
         ELSE RMax(RInt(0), RSub(RInt(100), RMul(RSub(angle, RInt(130)), RInt(2))))

\* average dividing by the window size whatever the queue holds
average_FixedDivisor(arr) ==
    IF Len(arr) = 0 THEN RInt(0) ELSE Rat(SumSeq(arr), WindowSize)

average(arr) == IF Len(arr) = 0 THEN RInt(0) ELSE Rat(SumSeq(arr), Len(arr))

\* overallScoreOf with the knee weighted 0.3: the weights sum to 1.1
overallScoreOf_WeightsOver(elbow, release, knee, alignment) ==
    MathRound(RAdd(RAdd(RMul(elbow, Rat(3, 10)), RMul(release, Rat(3, 10))),
                   RAdd(RMul(knee, Rat(3, 10)), RMul(alignment, Rat(2, 10)))))

\* Math.round(e * 0.3 + r * 0.3 + k * 0.2 + a * 0.2)
overallScoreOf(elbowScore, releaseScore, kneeScore, alignmentScoreValue) ==
    MathRound(RAdd(RAdd(RMul(elbowScore, Rat(3, 10)),
                        RMul(releaseScore, Rat(3, 10))),
                   RAdd(RMul(kneeScore, Rat(2, 10)),
                        RMul(alignmentScoreValue, Rat(2, 10)))))

----------------------------------------------------------------------------
(* What the pose source delivers *)

Pt(px, py) == [x |-> px, y |-> py]

\* the landmark indices analyzeShootingForm reads
RequiredJoints == {11, 12, 14, 16, 24, 26, 28}

\* elbow 90, release 50, knee 115, level shoulders
ReferencePose ==
    (11 :> Pt(400, 300)) @@ (12 :> Pt(500, 300)) @@ (14 :> Pt(620, 300)) @@
    (16 :> Pt(620, 157)) @@ (24 :> Pt(500, 600)) @@ (26 :> Pt(500, 750)) @@
    (28 :> Pt(648, 819))

\* arm hanging straight down, straight leg, shoulders tilted by 0.1
SlackPose ==
    (11 :> Pt(400, 400)) @@ (12 :> Pt(500, 300)) @@ (14 :> Pt(500, 450)) @@
    (16 :> Pt(500, 600)) @@ (24 :> Pt(500, 600)) @@ (26 :> Pt(500, 750)) @@
    (28 :> Pt(500, 900))

\* elbow folded to 45, release 45, knee 90, shoulders tilted by 0.05
CrouchPose ==
    (11 :> Pt(400, 350)) @@ (12 :> Pt(500, 300)) @@ (14 :> Pt(600, 400)) @@
    (16 :> Pt(600, 200)) @@ (24 :> Pt(500, 600)) @@ (26 :> Pt(500, 750)) @@
    (28 :> Pt(650, 750))

CompletePoses == {ReferencePose, SlackPose, CrouchPose}

\* a pose with one required joint not delivered
Without(pose, j) == [k \in (DOMAIN pose) \ {j} |-> pose[k]]
IncompletePoses == {Without(ReferencePose, j) : j \in RequiredJoints}

\* results.poseLandmarks of one callback; <<>> stands for "absent"
NoLandmarks == <<>>
PoseResults == {NoLandmarks} \cup CompletePoses \cup IncompletePoses

\* the raw metrics analyzeShootingForm derives from a complete pose
RawMetrics(landmarks) ==
    LET rightShoulder == landmarks[12]
        rightElbow == landmarks[14]
        rightWrist == landmarks[16]
        rightHip == landmarks[24]
        rightKnee == landmarks[26]
        rightAnkle == landmarks[28]
        leftShoulder == landmarks[11]
    IN  [elbowAngle |-> calculateAngle(rightShoulder, rightElbow, rightWrist),
         releaseHeight |-> calculateReleaseAngle(rightShoulder, rightWrist),
         kneeAngle |-> calculateAngle(rightHip, rightKnee, rightAnkle),
         alignmentScore |-> calculateAlignment(leftShoulder, rightShoulder)]

ReferenceMetrics == RawMetrics(ReferencePose)

----------------------------------------------------------------------------
(* The history queues *)

EmptyData ==
    [elbowAngles |-> <<>>, releaseHeights |-> <<>>,
     kneeAngles |-> <<>>, alignmentScores |-> <<>>]

\* storeData with the push into alignmentScores forgotten
storeData_DropsAlignment(data, m) ==
    [elbowAngles |-> Append(data.elbowAngles, m.elbowAngle),
     releaseHeights |-> Append(data.releaseHeights, m.releaseHeight),
     kneeAngles |-> Append(data.kneeAngles, m.kneeAngle),
     alignmentScores |-> data.alignmentScores]

\* the four push calls
storeData(data, m) ==
    [elbowAngles |-> Append(data.elbowAngles, m.elbowAngle),
     releaseHeights |-> Append(data.releaseHeights, m.releaseHeight),
     kneeAngles |-> Append(data.kneeAngles, m.kneeAngle),
     alignmentScores |-> Append(data.alignmentScores, m.alignmentScore)]

\* trimData with the eviction forgotten
trimData_NeverEvicts(data) == data

\* trimData with the test off by one (length > 31)
trimData_OffByOne(data) ==
    IF Len(data.elbowAngles) > WindowSize + 1
    THEN [elbowAngles |-> Tail(data.elbowAngles),
          releaseHeights |-> Tail(data.releaseHeights),
          kneeAngles |-> Tail(data.kneeAngles),
          alignmentScores |-> Tail(data.alignmentScores)]
    ELSE data

\* trimData shifting the elbow queue alone
trimData_ShiftsElbowOnly(data) ==
    IF Len(data.elbowAngles) > WindowSize
    THEN [data EXCEPT !.elbowAngles = Tail(data.elbowAngles)]
    ELSE data

\* trimData evicting the newest value (pop for shift)
trimData_DropsNewest(data) ==
    IF Len(data.elbowAngles) > WindowSize
    THEN [elbowAngles |-> SubSeq(data.elbowAngles, 1, WindowSize),
          releaseHeights |-> SubSeq(data.releaseHeights, 1, WindowSize),
          kneeAngles |-> SubSeq(data.kneeAngles, 1, WindowSize),
          alignmentScores |-> SubSeq(data.alignmentScores, 1, WindowSize)]
    ELSE data

\* "keep only last 30 frames": the test reads the elbow queue alone
trimData(data) ==
    IF Len(data.elbowAngles) > WindowSize
    THEN [elbowAngles |-> Tail(data.elbowAngles),
          releaseHeights |-> Tail(data.releaseHeights),
          kneeAngles |-> Tail(data.kneeAngles),
          alignmentScores |-> Tail(data.alignmentScores)]
    ELSE data

\* the averages, the four scores and the overall score of one run
Analysis(data) ==
    LET avgElbow == average(data.elbowAngles)
        avgRelease == average(data.releaseHeights)
        avgKnee == average(data.kneeAngles)
        avgAlignment == average(data.alignmentScores)
        elbowScore == scoreElbowAngle(avgElbow)
        releaseScore == scoreReleaseHeight(avgRelease)
        kneeScore == scoreKneeAngle(avgKnee)
        alignmentScoreValue == avgAlignment
    IN  [avgElbow |-> avgElbow, avgRelease |-> avgRelease,
         avgKnee |-> avgKnee, avgAlignment |-> avgAlignment,
         elbowScore |-> elbowScore, releaseScore |-> releaseScore,
         kneeScore |-> kneeScore, alignmentScoreValue |-> alignmentScoreValue,
         overallScore |-> overallScoreOf(elbowScore, releaseScore, kneeScore,
                                         alignmentScoreValue),
         samples |-> <<Len(data.elbowAngles), Len(data.releaseHeights),
                       Len(data.kneeAngles), Len(data.alignmentScores)>>]

----------------------------------------------------------------------------
(* The page *)

NoPersonText == "No person detected. Step into frame."
ResetText == "Statistics reset. Continue analyzing..."
ExcellentText == "Excellent form! Your technique is on point!"
GoodText == "Good form! Keep practicing for consistency."
FairText == "Fair form. Focus on the metrics highlighted below."
NeedsImprovementText == "Needs improvement. Review the technique tips."

\* the degree sign the page appends to an angle
Degrees(text) == text \o "deg"

updateBar(score) ==
    [width |-> score,
     class |-> IF RLe(RInt(80), score) THEN "good"
               ELSE IF RLe(RInt(60), score) THEN "warning" ELSE "poor"]

updateProgressBars(elbowScore, releaseScore, kneeScore, alignmentScore) ==
    [elbow |-> updateBar(elbowScore), release |-> updateBar(releaseScore),
     knee |-> updateBar(kneeScore), alignment |-> updateBar(alignmentScore)]

updateScoreRing(score) ==
    [score |-> score,
     stroke |-> IF score >= 80 THEN "#4ade80"
                ELSE IF score >= 60 THEN "#fbbf24" ELSE "#ef4444"]

\* updateFeedback testing its thresholds in ascending order
updateFeedback_Ascending(overall) ==
    IF overall < 50 THEN NeedsImprovementText
    ELSE IF overall >= 50 THEN FairText
    ELSE IF overall >= 70 THEN GoodText
    ELSE ExcellentText

updateFeedback(overall) ==
    IF overall >= 85 THEN ExcellentText
    ELSE IF overall >= 70 THEN GoodText
    ELSE IF overall >= 50 THEN FairText
    ELSE NeedsImprovementText

updateStatusMessages(elbow, release, knee, alignment) ==
    [elbow |-> IF RLe(RInt(85), elbow) /\ RLe(elbow, RInt(95))
               THEN "Perfect elbow angle!"
               ELSE IF RLt(elbow, RInt(85)) THEN "Raise your elbow slightly"
               ELSE "Lower your elbow slightly",
     release |-> IF RLe(RInt(45), release) /\ RLe(release, RInt(60))
                 THEN "Optimal release height!"
                 ELSE IF RLt(release, RInt(45)) THEN "Release point too low"
                 ELSE "Release point too high",
     knee |-> IF RLe(RInt(100), knee) /\ RLe(knee, RInt(130))
              THEN "Good knee bend!"
              ELSE IF RLt(knee, RInt(100)) THEN "Bend knees more"
              ELSE "Knees too bent",
     alignment |-> IF RLe(RInt(90), alignment) THEN "Perfect alignment!"
                   ELSE "Check shoulder level"]

\* the five updateMetricDisplay calls of one analysis
MetricTexts(c) ==
    [overall |-> ToString(c.overallScore),
     elbow |-> Degrees(ToString(MathRound(c.avgElbow))),
     release |-> Degrees(ToString(MathRound(c.avgRelease))),
     knee |-> Degrees(ToString(MathRound(c.avgKnee))),
     alignment |-> ToString(MathRound(c.avgAlignment))]

\* what resetStats writes into the page
ResetTexts ==
    [overall |-> "--", elbow |-> Degrees("--"), release |-> Degrees("--"),
     knee |-> Degrees("--"), alignment |-> "--"]

\* the status elements before any analysis
NoStatus == [elbow |-> "", release |-> "", knee |-> "", alignment |-> ""]

----------------------------------------------------------------------------
(* The state after the script has loaded and initializePose has run.  The  *)
(* page's own markup is not part of the sources: the metric elements start *)
(* as resetStats leaves them, and the stop button in either state.         *)

NoAnalysis ==
    [avgElbow |-> RInt(0), avgRelease |-> RInt(0), avgKnee |-> RInt(0),
     avgAlignment |-> RInt(0), elbowScore |-> RInt(0),
     releaseScore |-> RInt(0), kneeScore |-> RInt(0),
     alignmentScoreValue |-> RInt(0), overallScore |-> 0,
     samples |-> <<0, 0, 0, 0>>]

\* no pure function is probed while the page runs
NoProbe == [fn |-> "none"]

Loaded ==
    /\ isRunning = FALSE
    /\ camera = "none"
    /\ startBtn = "enabled"
    /\ stopBtn \in {"enabled", "disabled"}
    /\ inFlight = 0
    /\ frameCount = 0
    /\ analysisData = EmptyData
    /\ computed = NoAnalysis
    /\ display = ResetTexts
    /\ bars = updateProgressBars(RInt(0), RInt(0), RInt(0), RInt(0))
    /\ ring = updateScoreRing(0)
    /\ feedback = ""
    /\ status = NoStatus
    /\ statusText = "Ready"
    /\ lastFrame = "none"
    /\ thrown = FALSE
    /\ rawLog = <<>>
    /\ discarded = FALSE

Init == Loaded /\ probe = NoProbe

----------------------------------------------------------------------------
(* The start/stop gate *)

\* click on the start button: startCamera up to its await
StartCamera ==
    /\ startBtn = "enabled"
    /\ startBtn' = "disabled"
    /\ stopBtn' = "enabled"
    /\ isRunning' = TRUE
    /\ statusText' = "Analyzing..."
    /\ camera' = "starting"
    /\ UNCHANGED <<inFlight, historyVars, uiVars, feedback,
                   lastFrame, thrown, probe>>

\* camera.start() resolves: startCamera returns
CameraStarted ==
    /\ camera = "starting"
    /\ camera' = "on"
    /\ UNCHANGED <<isRunning, startBtn, stopBtn, statusText, inFlight,
                   historyVars, uiVars, feedback, lastFrame, thrown, probe>>

resetCamera ==
    /\ isRunning' = FALSE
    /\ startBtn' = "enabled"
    /\ stopBtn' = "disabled"
    /\ statusText' = "Ready"

\* camera.start() rejects: the catch block of startCamera
CameraFailed ==
    /\ camera = "starting"
    /\ camera' = "failed"
    /\ resetCamera
    /\ UNCHANGED <<inFlight, historyVars, uiVars, feedback,
                   lastFrame, thrown, probe>>

\* stopCamera also emptying the history
StopCamera_ClearsHistory ==
    /\ stopBtn = "enabled"
    /\ isRunning' = FALSE
    /\ camera' \in (CASE camera = "on" -> {"stopped"}
                      [] camera = "starting" -> {"starting", "stopped"}
                      [] OTHER -> {camera})
    /\ startBtn' = "enabled"
    /\ stopBtn' = "disabled"
    /\ statusText' = "Stopped"
    /\ analysisData' = EmptyData
    /\ frameCount' = 0
    /\ rawLog' = <<>>
    /\ UNCHANGED <<inFlight, discarded, uiVars, feedback, lastFrame, thrown,
                   probe>>

\* click on the stop button.  camera.stop() ends a started camera; whether
\* it also ends a start still pending is the camera library's business.
StopCamera ==
    /\ stopBtn = "enabled"
    /\ isRunning' = FALSE
    /\ camera' \in (CASE camera = "on" -> {"stopped"}
                      [] camera = "starting" -> {"starting", "stopped"}
                      [] OTHER -> {camera})
    /\ startBtn' = "enabled"
    /\ stopBtn' = "disabled"
    /\ statusText' = "Stopped"
    /\ UNCHANGED <<inFlight, historyVars, uiVars, feedback,
                   lastFrame, thrown, probe>>

\* the camera's onFrame callback: the frame goes to the pose source only
\* while the gate is open
OnFrame ==
    /\ camera = "on"
    /\ IF isRunning
       THEN inFlight < MaxInFlight /\ inFlight' = inFlight + 1
       ELSE inFlight' = inFlight
    /\ UNCHANGED <<gateVars, historyVars, uiVars, feedback,
                   lastFrame, thrown, probe>>

----------------------------------------------------------------------------
(* Reset *)

\* resetStats with frameCount left as it is
ResetStats_KeepsCount ==
    /\ analysisData' = EmptyData
    /\ frameCount' = frameCount
    /\ rawLog' = <<>>
    /\ discarded' = (frameCount > 0)
    /\ display' = ResetTexts
    /\ feedback' = ResetText
    /\ bars' = updateProgressBars(RInt(0), RInt(0), RInt(0), RInt(0))
    /\ ring' = updateScoreRing(0)
    /\ computed' = NoAnalysis
    /\ UNCHANGED <<gateVars, inFlight, status, lastFrame, thrown, probe>>

ResetStats ==
    /\ analysisData' = EmptyData
    /\ frameCount' = 0
    /\ rawLog' = <<>>
    /\ discarded' = (frameCount > 0)
    /\ display' = ResetTexts
    /\ feedback' = ResetText
    /\ bars' = updateProgressBars(RInt(0), RInt(0), RInt(0), RInt(0))
    /\ ring' = updateScoreRing(0)
    /\ computed' = NoAnalysis
    /\ UNCHANGED <<gateVars, inFlight, status, lastFrame, thrown, probe>>

----------------------------------------------------------------------------
(* The pose source's results callback *)

HasLandmarks(landmarks) == landmarks # NoLandmarks

\* reading .x or .y of a landmark that was not delivered throws a TypeError
CanAnalyze(landmarks) == RequiredJoints \subseteq DOMAIN landmarks

\* the early return also blanking the metric elements
NoPersonDetected_BlanksDisplay ==
    /\ feedback' = NoPersonText
    /\ thrown' = FALSE
    /\ display' = ResetTexts
    /\ UNCHANGED <<historyVars, computed, bars, ring, status>>

\* the early return counting the frame
NoPersonDetected_CountsFrame ==
    /\ feedback' = NoPersonText
    /\ thrown' = FALSE
    /\ frameCount' = frameCount + 1
    /\ UNCHANGED <<analysisData, rawLog, discarded, uiVars>>

\* no pose: the early return
NoPersonDetected ==
    /\ feedback' = NoPersonText
    /\ thrown' = FALSE
    /\ UNCHANGED <<historyVars, uiVars>>

\* a TypeError leaves drawPose or the geometry calls of analyzeShootingForm,
\* before the first push
AnalysisThrows ==
    /\ thrown' = TRUE
    /\ UNCHANGED <<historyVars, uiVars, feedback>>

analyzeShootingForm(landmarks) ==
    LET m == RawMetrics(landmarks)
        data == trimData(storeData(analysisData, m))
        c == Analysis(data)
    IN  /\ analysisData' = data
        /\ rawLog' = Append(rawLog, m)
        /\ computed' = c
        /\ display' = MetricTexts(c)
        /\ ring' = updateScoreRing(c.overallScore)
        /\ bars' = updateProgressBars(c.elbowScore, c.releaseScore,
                                      c.kneeScore, c.alignmentScoreValue)
        /\ feedback' = updateFeedback(c.overallScore)
        /\ status' = updateStatusMessages(c.avgElbow, c.avgRelease,
                                          c.avgKnee, c.avgAlignment)

FrameKind(landmarks) ==
    IF ~HasLandmarks(landmarks) THEN "absent"
    ELSE IF RequiredJoints \subseteq DOMAIN landmarks THEN "complete"
    ELSE "incomplete"

onPoseResults(landmarks) ==
    /\ lastFrame' = FrameKind(landmarks)
    /\ IF ~HasLandmarks(landmarks)
       THEN NoPersonDetected
       ELSE IF ~CanAnalyze(landmarks)
            THEN AnalysisThrows
            ELSE /\ analyzeShootingForm(landmarks)
                 /\ frameCount' = frameCount + 1
                 /\ discarded' = (discarded /\ frameCount = 0)
                 /\ thrown' = FALSE

\* the model accepts a complete pose only within its bounds
WithinBounds(landmarks) ==
    FrameKind(landmarks) = "complete" =>
        /\ frameCount < MaxFrames
        /\ (landmarks = ReferencePose \/ frameCount < MaxWarmup)

\* the pose source answers one pose.send
PoseResult ==
    /\ inFlight > 0
    /\ inFlight' = inFlight - 1
    /\ \E landmarks \in PoseResults :
          /\ WithinBounds(landmarks)
          /\ onPoseResults(landmarks)
    /\ UNCHANGED <<gateVars, probe>>

----------------------------------------------------------------------------

Next ==
    \/ StartCamera
    \/ CameraStarted
    \/ CameraFailed
    \/ StopCamera
    \/ OnFrame
    \/ ResetStats
    \/ PoseResult

Spec == Init /\ [][Next]_vars

----------------------------------------------------------------------------
(* The pure functions, each called once on an argument drawn at Init *)

\* the angles from 0 to limit degrees, in steps of 1 / StepsPerDegree
Angles(limit) == {Rat(n, StepsPerDegree) : n \in 0..(limit * StepsPerDegree)}

\* landmarks on the corners, edge midpoints and centre of the image
GridPoints == {Pt(px, py) : px \in {0, 500, 1000}, py \in {0, 500, 1000}}

ScoreProbes ==
    [fn : {"scoreElbowAngle", "scoreKneeAngle"}, arg : Angles(180),
     done : {FALSE}, result : {RInt(0)}]
    \cup [fn : {"scoreReleaseHeight"}, arg : Angles(90),
          done : {FALSE}, result : {RInt(0)}]

TierProbes ==
    [fn : {"updateFeedback"}, arg : 0..100, done : {FALSE}, result : {""}]

AngleProbes ==
    [fn : {"calculateAngle"}, arg : GridPoints \X GridPoints \X GridPoints,
     done : {FALSE}, result : {<<0, 0>>}]

InitPure ==
    /\ Loaded
    /\ \/ probe \in ScoreProbes
       \/ probe \in TierProbes
       \/ probe \in AngleProbes

ScoreOf(fn, angle) ==
    CASE fn = "scoreElbowAngle" -> scoreElbowAngle(angle)
      [] fn = "scoreReleaseHeight" -> scoreReleaseHeight(angle)
      [] fn = "scoreKneeAngle" -> scoreKneeAngle(angle)

\* one of the three scoring functions is called
CallScore ==
    /\ probe.fn \in {"scoreElbowAngle", "scoreReleaseHeight", "scoreKneeAngle"}
    /\ ~probe.done
    /\ probe' = [probe EXCEPT !.done = TRUE,
                              !.result = ScoreOf(probe.fn, probe.arg)]
    /\ UNCHANGED pageVars

\* updateFeedback is called with an overall score
CallFeedback ==
    /\ probe.fn = "updateFeedback"
    /\ ~probe.done
    /\ probe' = [probe EXCEPT !.done = TRUE,
                              !.result = updateFeedback(probe.arg)]
    /\ UNCHANGED pageVars

\* calculateAngle is called on three landmarks, and on them swapped
CallAngle ==
    /\ probe.fn = "calculateAngle"
    /\ ~probe.done
    /\ probe' =
          [probe EXCEPT
             !.done = TRUE,
             !.result =
                <<calculateAngle(probe.arg[1], probe.arg[2], probe.arg[3]),
                  calculateAngle(probe.arg[3], probe.arg[2], probe.arg[1])>>]
    /\ UNCHANGED pageVars

NextPure ==
    \/ CallScore
    \/ CallFeedback
    \/ CallAngle

SpecPure == InitPure /\ [][NextPure]_vars

----------------------------------------------------------------------------
(* Properties *)

Queues(data) ==
    <<data.elbowAngles, data.releaseHeights, data.kneeAngles,
      data.alignmentScores>>

\* the steps in which the pose source's callback has run
ResultDelivered == inFlight' = inFlight - 1

\* the four columns of the log of raw metrics
Columns(log) ==
    <<[i \in 1..Len(log) |-> log[i].elbowAngle],
      [i \in 1..Len(log) |-> log[i].releaseHeight],
      [i \in 1..Len(log) |-> log[i].kneeAngle],
      [i \in 1..Len(log) |-> log[i].alignmentScore]>>

\* the last n values of s, all of s when it holds fewer
LastN(s, n) == IF Len(s) <= n THEN s ELSE SubSeq(s, Len(s) - n + 1, Len(s))

Averages(c) == <<c.avgElbow, c.avgRelease, c.avgKnee, c.avgAlignment>>
Scores(c) ==
    <<c.elbowScore, c.releaseScore, c.kneeScore, c.alignmentScoreValue>>

\* C1: in every reachable state each of the four history queues holds at
\* most 30 values.
C1_HistoryAtMost30 ==
    \A k \in 1..4 : Len(Queues(analysisData)[k]) <= 30

\* 31 valid frames since the reset, and the queues still hold 30
C1_Witness ==
    /\ frameCount = 31
    /\ \A k \in 1..4 : Len(Queues(analysisData)[k]) = 30

\* C2: a callback without landmarks leaves the four queues, frameCount, the
\* displayed metrics and scores and the values they were computed from as
\* they were, however many such callbacks follow one another.
C2_MissingFrameSkipped ==
    [][(ResultDelivered /\ lastFrame' = "absent") =>
          UNCHANGED <<analysisData, frameCount, computed, display, bars,
                      ring, status>>]_vars

\* a missing detection after a full window: the page still shows the score
C2_Witness ==
    /\ lastFrame = "absent"
    /\ feedback = NoPersonText
    /\ Len(analysisData.elbowAngles) = 30
    /\ display.overall = "100"

\* C3: while the gate is closed no delivered pose result changes the
\* queues, frameCount or the displayed metrics.
C3_StoppedGateIgnoresResults ==
    [][(ResultDelivered /\ ~isRunning) =>
          UNCHANGED <<analysisData, frameCount, display, bars, ring>>]_vars

\* C4: landmarks lacking a required joint are handled like a missing
\* detection: the "no person" text is shown and no error leaves the
\* callback.
C4_IncompleteHandledAsMissing ==
    lastFrame = "incomplete" => (feedback = NoPersonText /\ ~thrown)

\* C5: resetStats can run in every state, and the state it leaves has four
\* empty queues and frameCount = 0.
C5_ResetEmptiesHistory ==
    /\ ENABLED ResetStats
    /\ feedback = ResetText =>
          /\ \A k \in 1..4 : Queues(analysisData)[k] = <<>>
          /\ frameCount = 0

\* a reset of a non-empty history, the gate open, after a missing detection
C5_Witness ==
    /\ feedback = ResetText
    /\ discarded
    /\ isRunning
    /\ lastFrame = "absent"

\* C6: from the first valid frame until the next reset every queue holds at
\* least one value, and average has never been handed an empty queue.
C6_NonEmptyUntilReset ==
    /\ rawLog # <<>> => \A k \in 1..4 : Len(Queues(analysisData)[k]) >= 1
    /\ computed # NoAnalysis => \A k \in 1..4 : computed.samples[k] >= 1

\* one valid frame, then the gate closed after a missing detection
C6_Witness ==
    /\ Len(rawLog) = 1
    /\ lastFrame = "absent"
    /\ ~isRunning
    /\ computed.samples = <<1, 1, 1, 1>>

\* C7: each queue holds the last min(n, 30) raw values of its metric in
\* arrival order, n the valid frames since the last reset, and the smoothed
\* value is the mean of exactly those.
C7_SlidingWindow ==
    \A k \in 1..4 :
        LET window == LastN(Columns(rawLog)[k], 30)
        IN  /\ Queues(analysisData)[k] = window
            /\ rawLog # <<>> =>
                  Averages(computed)[k] = Rat(SumSeq(window), Len(window))

\* 31 valid frames, the first off the reference form: it no longer counts
C7_Witness ==
    /\ Len(rawLog) = 31
    /\ rawLog[1] # ReferenceMetrics
    /\ Averages(computed) = <<RInt(90), RInt(50), RInt(115), RInt(100)>>

\* C8: the first valid frame after a reset (or after the page loaded)
\* yields smoothed values equal to its raw values.
C8_FirstFrameAfterReset ==
    Len(rawLog) = 1 =>
        Averages(computed) =
            <<RInt(rawLog[1].elbowAngle), RInt(rawLog[1].releaseHeight),
              RInt(rawLog[1].kneeAngle), RInt(rawLog[1].alignmentScore)>>

\* a reset emptied a non-empty history, one valid frame followed
C8_Witness ==
    /\ discarded
    /\ Len(rawLog) = 1
    /\ lastFrame = "complete"
    /\ Averages(computed) = <<RInt(180), RInt(0), RInt(180), RInt(0)>>

\* the last 30 valid frames each gave elbow 90, release 50, knee 115 and
\* alignment 100
ThirtyReferenceFrames ==
    /\ Len(rawLog) >= 30
    /\ \A i \in (Len(rawLog) - 29)..Len(rawLog) :
          rawLog[i] = [elbowAngle |-> 90, releaseHeight |-> 50,
                       kneeAngle |-> 115, alignmentScore |-> 100]

\* C9: after 30 consecutive valid frames of elbow 90, release 50, knee 115
\* and alignment 100 the smoothed metrics are those values, the overall score
\* is 100, the tier is "excellent" and the four labels are the optimal ones.
C9_ThirtyReferenceFramesScore100 ==
    ThirtyReferenceFrames =>
        /\ Averages(computed) = <<RInt(90), RInt(50), RInt(115), RInt(100)>>
        /\ computed.overallScore = 100
        /\ display.overall = "100"
        /\ feedback # NoPersonText => feedback = ExcellentText
        /\ status = [elbow |-> "Perfect elbow angle!",
                     release |-> "Optimal release height!",
                     knee |-> "Good knee bend!",
                     alignment |-> "Perfect alignment!"]

\* a frame of the slack pose, then 30 reference frames
C9_Witness ==
    /\ ThirtyReferenceFrames
    /\ Len(rawLog) = 31
    /\ rawLog[1] = RawMetrics(SlackPose)
    /\ feedback = ExcellentText

\* C10: the overall score is an integer in 0..100, 100 when the four scores
\* are 100 and 0 when they are 0.
C10_CompositeBounded ==
    /\ computed.overallScore \in 0..100
    /\ ring.score \in 0..100
    /\ (\A k \in 1..4 : Scores(computed)[k] = RInt(100)) =>
          computed.overallScore = 100
    /\ (\A k \in 1..4 : Scores(computed)[k] = RInt(0)) =>
          computed.overallScore = 0

\* a valid frame whose four scores are 0
C10_Witness ==
    /\ lastFrame = "complete"
    /\ rawLog # <<>>
    /\ \A k \in 1..4 : Scores(computed)[k] = RInt(0)
    /\ display.overall = "0"

\* the optimal band of each scoring function
BandLow(fn) ==
    CASE fn = "scoreElbowAngle" -> 90
      [] fn = "scoreReleaseHeight" -> 45
      [] fn = "scoreKneeAngle" -> 100
BandHigh(fn) ==
    CASE fn = "scoreElbowAngle" -> 90
      [] fn = "scoreReleaseHeight" -> 60
      [] fn = "scoreKneeAngle" -> 130

\* the probed angle moved one step towards the band
Towards(fn, angle) ==
    IF RLt(angle, RInt(BandLow(fn)))
    THEN RAdd(angle, Rat(1, StepsPerDegree))
    ELSE IF RLt(RInt(BandHigh(fn)), angle)
         THEN RSub(angle, Rat(1, StepsPerDegree))
         ELSE angle

ScoreProbed ==
    /\ probe.fn \in {"scoreElbowAngle", "scoreReleaseHeight", "scoreKneeAngle"}
    /\ probe.done

TierRank(text) ==
    CASE text = NeedsImprovementText -> 0
      [] text = FairText -> 1
      [] text = GoodText -> 2
      [] text = ExcellentText -> 3

\* C12: the tier of an overall score is "excellent" from 85, "good" from 70
\* to 84, "fair" from 50 to 69 and "needs improvement" below 50, and no
\* lower score gets a better tier.
C12_TierByThresholds ==
    (probe.fn = "updateFeedback" /\ probe.done) =>
        /\ probe.result =
              (CASE probe.arg >= 85 -> ExcellentText
                 [] probe.arg \in 70..84 -> GoodText
                 [] probe.arg \in 50..69 -> FairText
                 [] probe.arg < 50 -> NeedsImprovementText)
        /\ \A lower \in 0..probe.arg :
              TierRank(updateFeedback(lower)) <= TierRank(probe.result)

\* a score on a threshold: 70 is "good"
C12_Witness ==
    /\ probe.fn = "updateFeedback"
    /\ probe.done
    /\ probe.arg = 70
    /\ probe.result = GoodText

\* C12, on the page: the tier shown belongs to the overall score of the
\* analysis that wrote it.
C12_ShownTierMatchesScore ==
    feedback \in {ExcellentText, GoodText, FairText, NeedsImprovementText} =>
        /\ feedback = ExcellentText <=> computed.overallScore >= 85
        /\ feedback = GoodText <=> computed.overallScore \in 70..84
        /\ feedback = FairText <=> computed.overallScore \in 50..69
        /\ feedback = NeedsImprovementText <=> computed.overallScore < 50

\* C13: calculateAngle returns a value in [0,180], the same with the two
\* outer points swapped.
C13_AngleInRangeAndSymmetric ==
    (probe.fn = "calculateAngle" /\ probe.done) =>
        /\ probe.result[1] \in 0..180
        /\ probe.result[1] = probe.result[2]

\* a right angle whose difference of directions is 270 degrees
C13_Witness ==
    /\ probe.fn = "calculateAngle"
    /\ probe.done
    /\ probe.arg = <<Pt(0, 500), Pt(500, 500), Pt(500, 0)>>
    /\ probe.result = <<90, 90>>

\* C13, on the page: every elbow and knee angle in the history is in [0,180]
C13_HistoryAnglesInRange ==
    /\ \A i \in 1..Len(analysisData.elbowAngles) :
          analysisData.elbowAngles[i] \in 0..180
    /\ \A i \in 1..Len(analysisData.kneeAngles) :
          analysisData.kneeAngles[i] \in 0..180

\* C14: the four history queues have the same length in every reachable
\* state.
C14_QueuesSameLength ==
    \A k \in 1..4 :
        Len(Queues(analysisData)[k]) = Len(analysisData.elbowAngles)

\* after an eviction, the gate closed
C14_Witness ==
    /\ frameCount = 31
    /\ ~isRunning
    /\ \A k \in 1..4 : Len(Queues(analysisData)[k]) = 30

\* C15: the steps of startCamera, stopCamera and resetCamera leave the four
\* queues and frameCount as they are, and a non-empty history is emptied by
\* resetStats alone.
C15_GateKeepsHistory ==
    [][/\ gateVars' # gateVars => UNCHANGED <<analysisData, frameCount>>
       /\ (analysisData # EmptyData /\ analysisData' = EmptyData) =>
             feedback' = ResetText]_vars

\* a camera start that failed after a session that left a full history
C15_Witness ==
    /\ camera = "failed"
    /\ statusText = "Ready"
    /\ frameCount = 30
    /\ Len(analysisData.elbowAngles) = 30

Min(a, b) == IF a < b THEN a ELSE b

\* C16: each queue's length is min(frameCount, 30).
C16_LengthIsMinOfCountAnd30 ==
    \A k \in 1..4 : Len(Queues(analysisData)[k]) = Min(frameCount, 30)

\* 31 valid frames, then a missing detection
C16_Witness ==
    /\ frameCount = 31
    /\ lastFrame = "absent"
    /\ Len(analysisData.kneeAngles) = 30

AllLabelsOptimal ==
    /\ rawLog # <<>>
    /\ status = [elbow |-> "Perfect elbow angle!",
                 release |-> "Optimal release height!",
                 knee |-> "Good knee bend!",
                 alignment |-> "Perfect alignment!"]

\* C17: when the four labels of a valid frame are the optimal ones, the
\* smoothed metrics are in their bands, the overall score is at least 85 and
\* the tier is "excellent".
C17_OptimalLabelsExcellentTier ==
    AllLabelsOptimal =>
        /\ RLe(RInt(85), computed.avgElbow) /\ RLe(computed.avgElbow, RInt(95))
        /\ RLe(RInt(45), computed.avgRelease)
        /\ RLe(computed.avgRelease, RInt(60))
        /\ RLe(RInt(100), computed.avgKnee) /\ RLe(computed.avgKnee, RInt(130))
        /\ RLe(RInt(90), computed.avgAlignment)
        /\ computed.overallScore >= 85
        /\ feedback # NoPersonText => feedback = ExcellentText

\* optimal labels with the smoothed elbow off 90
C17_Witness ==
    /\ AllLabelsOptimal
    /\ computed.avgElbow # RInt(90)
    /\ computed.overallScore < 100
    /\ feedback = ExcellentText

=============================================================================
